---- MODULE Spec2Model ----
(***************************************************************************)
(* CLarray / CLsarray (src/src/CLarray.py): two numpy.ndarray subclasses   *)
(* that address a flat curvelet coefficient buffer by (scale, angle, row,  *)
(* column) through an FDCT operator object ("resolver").                   *)
(*                                                                         *)
(* The model keeps the Python objects the code manipulates:                *)
(*   klass  the attribute dictionaries of the two classes (the code        *)
(*          stores fdct_op on the class in __new__),                       *)
(*   mem    the numpy storages (dtype and flat data); storage 1 is the     *)
(*          plain ndarray holding the coefficient buffer,                  *)
(*   objs   the CLarray and CLsarray objects: class, storage, window onto  *)
(*          the storage, instance attributes, and how they were made,      *)
(*   last   the operation performed last,                                  *)
(*   ret    what the last call or constructor returned; a returned plain   *)
(*          array is held here for as long as the caller keeps it,         *)
(*   nwrites the number of element writes performed so far.                *)
(* Offsets and coordinates are 0-based as in Python; TLA+ sequences are    *)
(* 1-based, hence the "+ 1" wherever a sequence is read.                   *)
(* Numbers stored in arrays are held in halves (n stands for n/2), so that *)
(* float64 storage can carry a fractional part and int64 storage cannot.   *)
(***************************************************************************)
EXTENDS Integers, Sequences, FiniteSets, TLC

VARIABLES klass, mem, objs, last, ret, nwrites

vars == <<klass, mem, objs, last, ret, nwrites>>

(***************************************************************************)
(* Bounds of the model.                                                    *)
(***************************************************************************)
MaxObjs == 3
MaxNew == 2
MaxWrites == 1
MaxArgs == 5

(***************************************************************************)
(* Python values an attribute can hold: an int, an FDCT operator object    *)
(* (numbered), None, or no attribute at all.                               *)
(***************************************************************************)
AInt(n) == [t |-> "int", n |-> n]
AOp(i) == [t |-> "op", n |-> i]
ANone == [t |-> "none", n |-> 0]
AAbsent == [t |-> "absent", n |-> 0]

Min(a, b) == IF a < b THEN a ELSE b
Max(a, b) == IF a > b THEN a ELSE b

(***************************************************************************)
(* The FDCT operator (offset resolver).  Two operators of different        *)
(* decompositions: sizes[scale][angle] = (rows, cols); the coefficients    *)
(* are laid out scale after scale, angle after angle, row-major.           *)
(*   operator 1: scale 0 = {1x2}, scale 1 = {2x1, 1x1}     (5 coefficients)*)
(*   operator 2: scale 0 = {1x1}, scale 1 = {1x2}          (3 coefficients)*)
(***************************************************************************)
ResolverSizes ==
  << << << <<1, 2>> >>, << <<2, 1>>, <<1, 1>> >> >>,
     << << <<1, 1>> >>, << <<1, 2>> >> >> >>

Resolvers == 1..Len(ResolverSizes)

sizes(R) == ResolverSizes[R]

NScales(R) == Len(sizes(R))
NAngles(R, s) == Len(sizes(R)[s + 1])
Rows(R, s, a) == sizes(R)[s + 1][a + 1][1]
Cols(R, s, a) == sizes(R)[s + 1][a + 1][2]
WedgeLen(R, s, a) == Rows(R, s, a) * Cols(R, s, a)

RECURSIVE SumWedges(_, _, _)
SumWedges(R, s, a) ==
  IF a = 0 THEN 0 ELSE SumWedges(R, s, a - 1) + WedgeLen(R, s, a - 1)

ScaleLen(R, s) == SumWedges(R, s, NAngles(R, s))

RECURSIVE ScaleStart(_, _)
ScaleStart(R, s) ==
  IF s = 0 THEN 0 ELSE ScaleStart(R, s - 1) + ScaleLen(R, s - 1)

Total(R) == ScaleStart(R, NScales(R))

WedgeStart(R, s, a) == ScaleStart(R, s) + SumWedges(R, s, a)

\* A coordinate is a sequence of Python values; the operator accepts ints in
\* range and signals everything else.
ValidCoord(R, c) ==
  /\ Len(c) \in 1..4
  /\ \A i \in 1..Len(c) : c[i].t = "int"
  /\ c[1].n >= 0 /\ c[1].n < NScales(R)
  /\ Len(c) >= 2 => (c[2].n >= 0 /\ c[2].n < NAngles(R, c[1].n))
  /\ Len(c) >= 3 => (c[3].n >= 0 /\ c[3].n < Rows(R, c[1].n, c[2].n))
  /\ Len(c) >= 4 => (c[4].n >= 0 /\ c[4].n < Cols(R, c[1].n, c[2].n))

\* index(...): the half-open range [start, end) of a partial coordinate, as
\* <<start, end>>; for a full coordinate the single offset, as <<off, off + 1>>.
index(R, c) ==
  LET s == c[1].n IN
  IF Len(c) = 1 THEN <<ScaleStart(R, s), ScaleStart(R, s) + ScaleLen(R, s)>>
  ELSE LET a == c[2].n
           w == WedgeStart(R, s, a) IN
       IF Len(c) = 2 THEN <<w, w + WedgeLen(R, s, a)>>
       ELSE LET r == w + c[3].n * Cols(R, s, a) IN
            IF Len(c) = 3 THEN <<r, r + Cols(R, s, a)>>
            ELSE <<r + c[4].n, r + c[4].n + 1>>

\* getindex((s, a, r, c)): the absolute offset of a full coordinate.
getindex(R, loc) == index(R, loc)[1]

(***************************************************************************)
(* numpy: storage, slicing, element access, dtype conversion.              *)
(***************************************************************************)
DTypes == {"int64", "float64"}

\* Conversion of a number (in halves) to a dtype: int64 drops the fraction
\* (towards zero), float64 keeps the number.
Cast(v, dtype) ==
  IF dtype = "float64" THEN v
  ELSE IF v >= 0 THEN 2 * (v \div 2) ELSE 0 - 2 * ((0 - v) \div 2)

\* numpy.dtype(None) is float64.
AsDType(dtype) == IF dtype = "None" THEN "float64" ELSE dtype

\* a[lo:hi] on a 1-d array of n elements: <<first element, count>>.
SliceNorm(n, i) == IF i < 0 THEN Max(i + n, 0) ELSE Min(i, n)
PySlice(n, lo, hi) ==
  LET l == SliceNorm(n, lo)
      h == SliceNorm(n, hi) IN
  <<l, Max(h - l, 0)>>

\* a[i] on a 1-d array of n elements: the element's position, or -1 (IndexError).
PyIndex(n, i) ==
  IF i >= 0 /\ i < n THEN i
  ELSE IF i < 0 /\ i + n >= 0 THEN i + n
  ELSE 0 - 1

RECURSIVE Prod(_)
Prod(shape) == IF shape = <<>> THEN 1 ELSE Head(shape) * Prod(Tail(shape))

\* The k-th element (flat, 0-based) of array object o.
Elem(o, k) == mem[o.store].data[o.off + k + 1]

\* The flat contents of array object o.
Contents(o) == [k \in 1..o.len |-> mem[o.store].data[o.off + k]]

(***************************************************************************)
(* Python attribute lookup: the instance dictionary, then the class.       *)
(* kl is the class table to look in (the one in force at that point of the *)
(* code).                                                                  *)
(***************************************************************************)
ClassAttr(kl, cls, name) ==
  IF cls \in DOMAIN kl THEN kl[cls][name] ELSE AAbsent

GetAttrK(kl, o, name) ==
  IF o[name].t # "absent" THEN o[name] ELSE ClassAttr(kl, o.cls, name)

HasAttrK(kl, o, name) == GetAttrK(kl, o, name).t # "absent"

GetAttr(o, name) == GetAttrK(klass, o, name)

(***************************************************************************)
(* __array_finalize__(self, obj): numpy calls it on every new array of the *)
(* class, with obj the array it was made from.                             *)
(***************************************************************************)
CLarray_array_finalize(kl, self, obj) ==
  IF HasAttrK(kl, obj, "fdct_op")
  THEN [self EXCEPT !.fdct_op = GetAttrK(kl, obj, "fdct_op")]
  ELSE self

CLsarray_array_finalize(kl, self, obj) ==
  LET s1 == IF HasAttrK(kl, obj, "fdct_op")
            THEN [self EXCEPT !.fdct_op = GetAttrK(kl, obj, "fdct_op")]
            ELSE self
  IN IF HasAttrK(kl, obj, "fdct_scale")
     THEN [s1 EXCEPT !.fdct_scale = GetAttrK(kl, obj, "fdct_op")]
     ELSE s1

\* A new array of class cls made from obj: no instance attributes of its own,
\* then the class's __array_finalize__ (numpy.ndarray has none to run).
Finalized(kl, cls, self, obj) ==
  LET fresh == [self EXCEPT !.cls = cls, !.fdct_op = AAbsent,
                            !.fdct_scale = AAbsent] IN
  IF cls = "CLarray" THEN CLarray_array_finalize(kl, fresh, obj)
  ELSE IF cls = "CLsarray" THEN CLsarray_array_finalize(kl, fresh, obj)
  ELSE fresh

\* obj.view(subtype): the same storage and window, wrapped as subtype.
ViewAs(kl, subtype, obj) == Finalized(kl, subtype, obj, obj)

(***************************************************************************)
(* __new__: the part that touches the class.                               *)
(***************************************************************************)
CLarray_new_class(kl, fdct_op) ==
  IF kl["CLarray"]["fdct_op"].t = "absent"
  THEN [kl EXCEPT !["CLarray"]["fdct_op"] = fdct_op]
  ELSE kl

CLsarray_new_class(kl, fdct_op, fdct_scale) ==
  LET k1 == IF kl["CLsarray"]["fdct_op"].t = "absent"
            THEN [kl EXCEPT !["CLsarray"]["fdct_op"] = fdct_op]
            ELSE kl
  IN IF k1["CLsarray"]["fdct_scale"].t = "absent"
     THEN [k1 EXCEPT !["CLsarray"]["fdct_op"] = fdct_scale]
     ELSE k1

\* Which way __new__ wraps an ndarray: a view of its storage, or astype's copy.
NewPath(dtype, data_dtype, copy) ==
  IF ~copy /\ (dtype = data_dtype \/ dtype = "None") THEN "view" ELSE "astype"

(***************************************************************************)
(* Outcomes of a call, before any new array object is recorded.            *)
(*   self    the object itself                                             *)
(*   view    a window [lo, lo + n) of self's window, on the same storage   *)
(*   copy    the same window copied to fresh storage, with a shape         *)
(*   scalar  one element's value                                           *)
(*   None    the call fell off the end of the function                     *)
(*   error   an exception                                                  *)
(***************************************************************************)
Outcome(kind, lo, n, shape, val, err) ==
  [kind |-> kind, lo |-> lo, n |-> n, shape |-> shape, val |-> val, err |-> err]

OSelf == Outcome("self", 0, 0, <<>>, 0, "")
ONone == Outcome("None", 0, 0, <<>>, 0, "")
OErr(e) == Outcome("error", 0, 0, <<>>, 0, e)
OScalar(v) == Outcome("scalar", 0, 0, <<>>, v, "")

\* self[lo:hi]
getitem_slice(self, lo, hi) ==
  LET sl == PySlice(self.len, lo, hi) IN
  Outcome("view", sl[1], sl[2], <<sl[2]>>, 0, "")

\* self[i]
getitem_index(self, i) ==
  LET p == PyIndex(self.len, i) IN
  IF p < 0 THEN OErr("IndexError") ELSE OScalar(Elem(self, p))

\* numpy.array(x): a base-class copy of x on storage of its own.
np_array_alias(o) == o
np_array(o) == [o EXCEPT !.kind = "copy"]

\* x.reshape(shape)
reshape(o, shape) ==
  IF o.kind = "error" THEN o
  ELSE IF Prod(shape) # o.n THEN OErr("ValueError")
  ELSE [o EXCEPT !.shape = shape]

\* ind - i0: an absolute offset brought into the scale's own storage.
Rebase_absolute(ind, i0) == ind
Rebase(ind, i0) == ind - i0

IntArgs(args) == [i \in 1..Len(args) |-> AInt(args[i])]

(***************************************************************************)
(* CLarray.__call__(self, *args)                                           *)
(***************************************************************************)
CLarray_call(self, args) ==
  LET op == GetAttr(self, "fdct_op")
      c == IntArgs(args)
  IN IF Len(args) = 0 THEN OSelf
     ELSE IF Len(args) > 4 THEN ONone
     ELSE IF op.t # "op" THEN OErr("AttributeError")
     ELSE IF ~ValidCoord(op.n, c) THEN OErr("ResolverError")
     ELSE LET ind == index(op.n, c) IN
          IF Len(args) = 1 THEN getitem_slice(self, ind[1], ind[2])
          ELSE IF Len(args) = 2
          THEN reshape(np_array(getitem_slice(self, ind[1], ind[2])),
                       sizes(op.n)[args[1] + 1][args[2] + 1])
          ELSE IF Len(args) = 3
          THEN np_array(getitem_slice(self, ind[1], ind[2]))
          ELSE getitem_index(self, ind[1])

(***************************************************************************)
(* CLsarray.__call__(self, *args): i0 is computed before the argument      *)
(* count is looked at.                                                     *)
(***************************************************************************)
CLsarray_call(self, args) ==
  LET op == GetAttr(self, "fdct_op")
      sc == GetAttr(self, "fdct_scale")
      c == <<sc>> \o IntArgs(args)
  IN IF op.t # "op" THEN OErr("AttributeError")
     ELSE IF sc.t = "absent" THEN OErr("AttributeError")
     ELSE IF ~ValidCoord(op.n, <<sc, AInt(0), AInt(0), AInt(0)>>)
     THEN OErr("ResolverError")
     ELSE LET i0 == getindex(op.n, <<sc, AInt(0), AInt(0), AInt(0)>>) IN
          IF Len(args) = 0 THEN OSelf
          ELSE IF Len(args) > 3 THEN ONone
          ELSE IF ~ValidCoord(op.n, c) THEN OErr("ResolverError")
          ELSE LET ind == index(op.n, c) IN
               IF Len(args) = 1
               THEN reshape(np_array(getitem_slice(self, Rebase(ind[1], i0),
                                                   Rebase(ind[2], i0))),
                            sizes(op.n)[sc.n + 1][args[1] + 1])
               ELSE IF Len(args) = 2
               THEN np_array(getitem_slice(self, Rebase(ind[1], i0),
                                           Rebase(ind[2], i0)))
               ELSE getitem_index(self, Rebase(ind[1], i0))

(***************************************************************************)
(* State.                                                                  *)
(***************************************************************************)
Classes == {"CLarray", "CLsarray"}

\* Inputs of the operations.
\* Coordinates 0 and 1: every coordinate the two operators accept, and for
\* each of them some they signal.
Coords == {0, 1}
ArgTuples ==
  UNION {[1..n -> Coords] : n \in 0..4}
    \cup {[i \in 1..n |-> 0] : n \in 5..MaxArgs}
OpArgs == {ANone} \cup {AOp(R) : R \in Resolvers}
ScaleArgs == {AInt(1)}
DTypeArgs == {"None", "float64"}
ListData == <<2, 4, 6>>          \* the Python list [1, 2, 3]
WriteVal == 2 * 7 + 1            \* the number 7.5

\* Objects are numbered from 1 in objs, storages from 1 in mem.
NoObj == Len(<<>>)               \* where no object is meant
Buffer == NoObj + 1              \* the storage of the plain coefficient buffer

\* The coefficient buffer at hand from the start: numpy.arange(5), of the size
\* operator 1 produces.
BaseBuffer == [dtype |-> "int64", data |-> [k \in 1..Total(1) |-> 2 * (k - 1)]]

\* A plain ndarray over the whole of storage st.
Plain(st, n) ==
  [cls |-> "ndarray", store |-> st, off |-> 0, len |-> n,
   fdct_op |-> AAbsent, fdct_scale |-> AAbsent,
   how |-> "plain", src |-> NoObj, given_op |-> AAbsent,
   given_scale |-> AAbsent, bound_op |-> AAbsent]

Ret(kind, obj, val, err) ==
  [kind |-> kind, obj |-> obj, val |-> val, err |-> err, shape |-> <<>>,
   dtype |-> "", data |-> <<>>, store |-> 0, off |-> 0]

Init ==
  /\ klass = [c \in Classes |-> [fdct_op |-> AAbsent, fdct_scale |-> AAbsent]]
  /\ mem = <<BaseBuffer>>
  /\ objs = <<>>
  /\ last = [op |-> "init", obj |-> NoObj, args |-> <<>>]
  /\ ret = Ret("none", NoObj, 0, "")
  /\ nwrites = 0

\* The record of how an object was made (not Python state): the operation, the
\* object it was made from, the resolver and scale handed to the constructor,
\* and the resolver the object answered with when it was made.
Made(kl, o, how, src, given_op, given_scale) ==
  [o EXCEPT !.how = how, !.src = src, !.given_op = given_op,
            !.given_scale = given_scale,
            !.bound_op = GetAttrK(kl, o, "fdct_op")]

NumNew == Cardinality({i \in 1..Len(objs) :
                         objs[i].how \in {"new_view", "new_copy", "new_list"}})

\* data.astype(dtype): a copy on storage of its own.
AsTypeStore(d, dtype) ==
  [dtype |-> AsDType(dtype),
   data |-> [k \in 1..d.len |-> Cast(Elem(d, k - 1), AsDType(dtype))]]

\* The elements [lo, lo + n) of d.
Window(d, lo, n) == [k \in 1..n |-> Elem(d, lo + k - 1)]

(***************************************************************************)
(* __new__(subtype, data, ...): the wrapping of data, the same code in     *)
(* both classes.  data is the plain coefficient buffer ("buffer") or the   *)
(* Python list ListData ("list").  kl is the class table as __new__ has    *)
(* left it.                                                                *)
(***************************************************************************)
DataArgs == {"buffer", "list"}

Wrap(kl, subtype, data, dtype, copy, given_op, given_scale) ==
  /\ Len(objs) < MaxObjs /\ NumNew < MaxNew
  /\ klass' = kl
  /\ IF data = "list"
     THEN LET arr == Plain(Len(mem) + 1, Len(ListData)) IN
          /\ mem' = Append(mem, [dtype |-> "int64", data |-> ListData])
          /\ objs' = Append(objs, Made(kl, ViewAs(kl, subtype, arr), "new_list",
                                       NoObj, given_op, given_scale))
     ELSE LET d == Plain(Buffer, Len(mem[Buffer].data)) IN
          IF NewPath(dtype, mem[Buffer].dtype, copy) = "view"
          THEN /\ mem' = mem
               /\ objs' = Append(objs, Made(kl, ViewAs(kl, subtype, d),
                                            "new_view", NoObj, given_op,
                                            given_scale))
          ELSE LET conv == [d EXCEPT !.store = Len(mem) + 1] IN
               /\ mem' = Append(mem, AsTypeStore(d, dtype))
               /\ objs' = Append(objs, Made(kl, ViewAs(kl, subtype, conv),
                                            "new_copy", NoObj, given_op,
                                            given_scale))
  /\ ret' = Ret("obj", Len(objs) + 1, 0, "")
  /\ UNCHANGED nwrites

CLarray_new(data, fdct_op, dtype, copy) ==
  /\ Wrap(CLarray_new_class(klass, fdct_op), "CLarray", data, dtype, copy,
          fdct_op, AAbsent)
  /\ last' = [op |-> "CLarray_new", obj |-> Len(objs) + 1, args |-> <<>>]

CLsarray_new(data, fdct_op, fdct_scale, dtype, copy) ==
  /\ Wrap(CLsarray_new_class(klass, fdct_op, fdct_scale), "CLsarray", data,
          dtype, copy, fdct_op, fdct_scale)
  /\ last' = [op |-> "CLsarray_new", obj |-> Len(objs) + 1, args |-> <<>>]

(***************************************************************************)
(* What a call on object i with outcome o hands back.  A "copy" is a plain *)
(* array with data of its own; a "view" that reaches the caller is a plain *)
(* array on the storage of objs[i].                                        *)
(***************************************************************************)
Returned(i, o) ==
  IF o.kind = "self" THEN Ret("obj", i, 0, "")
  ELSE IF o.kind = "copy"
  THEN [Ret("array", NoObj, 0, "") EXCEPT
          !.shape = o.shape, !.dtype = mem[objs[i].store].dtype,
          !.data = Window(objs[i], o.lo, o.n)]
  ELSE IF o.kind = "view"
  THEN [Ret("array", NoObj, 0, "") EXCEPT
          !.shape = o.shape, !.dtype = mem[objs[i].store].dtype,
          !.store = objs[i].store, !.off = objs[i].off + o.lo]
  ELSE Ret(o.kind, NoObj, o.val, o.err)

Call_CLarray(i, args) ==
  /\ i \in 1..Len(objs) /\ objs[i].cls = "CLarray"
  /\ LET self == objs[i]
         o == CLarray_call(self, args) IN
     IF Len(args) = 1 /\ o.kind = "view"
     THEN \* x = CLsarray(self[ind[0]:ind[1]], fdct_op=self.fdct_op,
          \*              fdct_scale=args[0]); x.fdct_scale = args[0]
          LET piece == Finalized(klass, "CLarray",
                          [self EXCEPT !.off = self.off + o.lo, !.len = o.n],
                          self)
              kl == CLsarray_new_class(klass, GetAttr(self, "fdct_op"),
                                       AInt(args[1]))
              x == [ViewAs(kl, "CLsarray", piece)
                      EXCEPT !.fdct_scale = AInt(args[1])] IN
          /\ Len(objs) < MaxObjs
          /\ klass' = kl
          /\ objs' = Append(objs, Made(kl, x, "scale", i,
                                       GetAttr(self, "fdct_op"), AInt(args[1])))
          /\ ret' = Ret("obj", Len(objs) + 1, 0, "")
     ELSE /\ ret' = Returned(i, o)
          /\ UNCHANGED <<klass, objs>>
  /\ last' = [op |-> "CLarray_call", obj |-> i, args |-> args]
  /\ UNCHANGED <<mem, nwrites>>

Call_CLsarray(i, args) ==
  /\ i \in 1..Len(objs) /\ objs[i].cls = "CLsarray"
  /\ ret' = Returned(i, CLsarray_call(objs[i], args))
  /\ last' = [op |-> "CLsarray_call", obj |-> i, args |-> args]
  /\ UNCHANGED <<klass, mem, objs, nwrites>>

(***************************************************************************)
(* numpy operations on a view that keep the wrapper class and so run       *)
(* __array_finalize__ with the view as obj: v[:] (same storage) and        *)
(* v.copy() (storage of its own; arithmetic on v finalizes the same way).  *)
(***************************************************************************)
DeriveModes == {"slice", "copy"}

Derive(i, mode) ==
  /\ i \in 1..Len(objs)
  /\ Len(objs) < MaxObjs
  /\ LET p == objs[i]
         moved == IF mode = "slice" THEN p
                  ELSE [p EXCEPT !.store = Len(mem) + 1, !.off = 0]
         v == Finalized(klass, p.cls, moved, p) IN
     /\ objs' = Append(objs, Made(klass, v, mode, i, p.given_op, p.given_scale))
     /\ mem' = IF mode = "slice" THEN mem
               ELSE Append(mem, [dtype |-> mem[p.store].dtype,
                                 data |-> Window(p, 0, p.len)])
  /\ ret' = Ret("obj", Len(objs) + 1, 0, "")
  /\ last' = [op |-> "derive", obj |-> i, args |-> <<>>]
  /\ UNCHANGED <<klass, nwrites>>

(***************************************************************************)
(* Element writes a.flat[k] = WriteVal: through a view object, through the *)
(* plain coefficient buffer, and through the plain array a call returned.  *)
(* A plain array a call returned stays with the caller across the writes.  *)
(***************************************************************************)
Held == IF ret.kind = "array" THEN ret ELSE Ret("None", NoObj, 0, "")

Stored(st, pos) ==
  [mem EXCEPT ![st].data[pos] = Cast(WriteVal, mem[st].dtype)]

SetItem(i, k) ==
  /\ nwrites < MaxWrites
  /\ i \in 1..Len(objs) /\ k \in 0..(objs[i].len - 1)
  /\ mem' = Stored(objs[i].store, objs[i].off + k + 1)
  /\ nwrites' = nwrites + 1
  /\ last' = [op |-> "setitem", obj |-> i, args |-> <<k>>]
  /\ ret' = Held
  /\ UNCHANGED <<klass, objs>>

SetItemBuffer(k) ==
  /\ nwrites < MaxWrites
  /\ k \in 0..(Len(mem[Buffer].data) - 1)
  /\ mem' = Stored(Buffer, k + 1)
  /\ nwrites' = nwrites + 1
  /\ last' = [op |-> "setitem_buffer", obj |-> NoObj, args |-> <<k>>]
  /\ ret' = Held
  /\ UNCHANGED <<klass, objs>>

SetItemResult(k) ==
  /\ nwrites < MaxWrites
  /\ ret.kind = "array" /\ k \in 0..(Prod(ret.shape) - 1)
  /\ IF ret.store = 0
     THEN /\ ret' = [ret EXCEPT !.data[k + 1] = Cast(WriteVal, ret.dtype)]
          /\ mem' = mem
     ELSE /\ mem' = Stored(ret.store, ret.off + k + 1)
          /\ ret' = ret
  /\ nwrites' = nwrites + 1
  /\ last' = [op |-> "setitem_result", obj |-> NoObj, args |-> <<k>>]
  /\ UNCHANGED <<klass, objs>>

\* The flat contents of the array held in ret.
ResultContents ==
  IF ret.store = 0 THEN ret.data
  ELSE [k \in 1..Prod(ret.shape) |-> mem[ret.store].data[ret.off + k]]

(***************************************************************************)
(* Four specifications.                                                    *)
(*   Spec   construction and indexing, with every input of the two         *)
(*          constructors;                                                  *)
(*   SpecR  ScaleViews taken from views built by CLarray without copy,     *)
(*          over the coefficient buffer and over the list, and the calls   *)
(*          on them with one to three components;                          *)
(*   SpecD  derivation (v[:], v.copy()) from views built by CLarray over   *)
(*          the coefficient buffer, and from their scales;                 *)
(*   SpecW  element writes, on views built by CLarray over the coefficient *)
(*          buffer, on their scales and on the arrays their calls return.  *)
(***************************************************************************)
Next ==
  \/ \E data \in DataArgs, op \in OpArgs, dt \in DTypeArgs, cp \in BOOLEAN :
       CLarray_new(data, op, dt, cp)
  \/ \E data \in DataArgs, op \in OpArgs, sc \in ScaleArgs, dt \in DTypeArgs,
        cp \in BOOLEAN :
       CLsarray_new(data, op, sc, dt, cp)
  \/ \E i \in 1..MaxObjs, args \in ArgTuples : Call_CLarray(i, args)
  \/ \E i \in 1..MaxObjs, args \in ArgTuples : Call_CLsarray(i, args)

Spec == Init /\ [][Next]_vars

NextD ==
  \/ \E op \in OpArgs, dt \in DTypeArgs, cp \in BOOLEAN :
       CLarray_new("buffer", op, dt, cp)
  \/ \E i \in 1..MaxObjs, args \in ArgTuples : Call_CLarray(i, args)
  \/ \E i \in 1..MaxObjs, args \in ArgTuples : Call_CLsarray(i, args)
  \/ \E i \in 1..MaxObjs, mode \in DeriveModes : Derive(i, mode)

SpecD == Init /\ [][NextD]_vars

\* The calls that hand back a scale or an array: one to three components.
ArrayArgs == {a \in ArgTuples : Len(a) \in 1..3}

NextW ==
  \/ \E op \in OpArgs, dt \in DTypeArgs, cp \in BOOLEAN :
       CLarray_new("buffer", op, dt, cp)
  \/ \E i \in 1..MaxObjs, args \in ArrayArgs : Call_CLarray(i, args)
  \/ \E i \in 1..MaxObjs, args \in ArrayArgs : Call_CLsarray(i, args)
  \/ \E i \in 1..MaxObjs, k \in 0..(Total(1) - 1) : SetItem(i, k)
  \/ \E k \in 0..(Total(1) - 1) : SetItemBuffer(k)
  \/ \E k \in 0..(Total(1) - 1) : SetItemResult(k)

SpecW == Init /\ [][NextW]_vars

NextR ==
  \/ \E data \in DataArgs, op \in OpArgs : CLarray_new(data, op, "None", FALSE)
  \/ \E i \in 1..MaxObjs, s \in Coords : Call_CLarray(i, <<s>>)
  \/ \E i \in 1..MaxObjs, args \in ArrayArgs : Call_CLsarray(i, args)

SpecR == Init /\ [][NextR]_vars

(***************************************************************************)
(* Vocabulary of the properties.                                           *)
(***************************************************************************)
Constructed == {"new_view", "new_copy", "new_list"}
Calls == {"CLarray_call", "CLsarray_call"}
Writes == {"setitem", "setitem_buffer", "setitem_result"}

\* View i was built by the constructor of class cls with a resolver, over
\* data holding exactly the coefficients that resolver lays out.
BuiltWith(i, cls) ==
  /\ objs[i].cls = cls
  /\ objs[i].how \in Constructed
  /\ objs[i].given_op.t = "op"
  /\ objs[i].len = Total(objs[i].given_op.n)

\* The resolver view i was constructed with.
Given(i) == objs[i].given_op.n

\* The elements [b, e) of view object t, in order.
Range(t, b, e) == [k \in 1..(e - b) |-> Elem(t, b + k - 1)]

\* The view the last operation was performed on.
LastObj == objs[last.obj]

(***************************************************************************)
(* C1  Rebasing correctness.  Whenever a ScaleView x obtained as TV(s) is  *)
(* indexed with one, two or three components, what it returns (shape,      *)
(* element type and elements, or the error) is what TV returns for s       *)
(* followed by the same components.                                        *)
(***************************************************************************)
C1_Rebasing ==
  (/\ last.op = "CLsarray_call"
   /\ LastObj.how = "scale"
   /\ Len(last.args) \in 1..3)
  => ret = Returned(LastObj.src,
                    CLarray_call(objs[LastObj.src],
                                 <<LastObj.given_scale.n>> \o last.args))

\* A wedge of a scale that does not begin the buffer has been read through
\* the ScaleView.
C1_Witness ==
  /\ last.op = "CLsarray_call"
  /\ LastObj.how = "scale"
  /\ LastObj.off > 0
  /\ Len(last.args) = 1
  /\ ret.kind = "array"
  /\ Len(ret.data) > 1

(***************************************************************************)
(* C2  TV(s, a), on a view constructed with resolver R over R's            *)
(* coefficients and for (s, a) valid in R, returns an array of shape       *)
(* R.sizes[s][a] whose flat contents are buffer[R.index(s, a)].            *)
(***************************************************************************)
C2_WedgeContents ==
  (/\ last.op = "CLarray_call"
   /\ Len(last.args) = 2
   /\ BuiltWith(last.obj, "CLarray")
   /\ ValidCoord(Given(last.obj), IntArgs(last.args)))
  => LET R == Given(last.obj)
         ind == index(R, IntArgs(last.args)) IN
     /\ ret.kind = "array"
     /\ ret.shape = sizes(R)[last.args[1] + 1][last.args[2] + 1]
     /\ ResultContents = Range(LastObj, ind[1], ind[2])

(***************************************************************************)
(* C3  TV(s, a, r, c), on a view constructed with resolver R over R's      *)
(* coefficients and for (s, a, r, c) valid in R, returns the one element   *)
(* at offset R.index(s, a, r, c).                                          *)
(***************************************************************************)
C3_SingleElement ==
  (/\ last.op = "CLarray_call"
   /\ Len(last.args) = 4
   /\ BuiltWith(last.obj, "CLarray")
   /\ ValidCoord(Given(last.obj), IntArgs(last.args)))
  => /\ ret.kind = "scalar"
     /\ ret.val = Elem(LastObj, index(Given(last.obj), IntArgs(last.args))[1])

(***************************************************************************)
(* C4  Copy law.  While the caller holds an array returned by TV(s, a),    *)
(* TV(s, a, r), SV(a) or SV(a, r): an element write to that array changes  *)
(* no storage of the program, and an element write through a view or       *)
(* through the coefficient buffer leaves the array's contents as they were.*)
(***************************************************************************)
C4_CopyLaw ==
  [][(ret.kind = "array" /\ last'.op \in Writes)
      => /\ last'.op = "setitem_result" => mem' = mem
         /\ last'.op # "setitem_result" => ResultContents' = ResultContents]_vars

\* An array a call returned has been written to, and shows the write.
C4_Witness ==
  /\ last.op = "setitem_result"
  /\ ret.kind = "array"
  /\ \E k \in 1..Len(ret.data) : ret.data[k] = Cast(WriteVal, ret.dtype)
  /\ mem[Buffer] = BaseBuffer

(***************************************************************************)
(* C5  Aliasing law, after any element writes.  (i) A CLarray made from    *)
(* the coefficient buffer without copy or dtype change shows the buffer's  *)
(* elements.  (ii) The ScaleView TV(s) of a view constructed with resolver *)
(* R over R's coefficients, with [start, end) = R.index(s), has end-start  *)
(* elements and its element k is TV's element start + k.                   *)
(***************************************************************************)
C5_AliasingLaw ==
  /\ \A i \in 1..Len(objs) :
       objs[i].how = "new_view"
         => \A k \in 0..(objs[i].len - 1) :
              Elem(objs[i], k) = mem[Buffer].data[k + 1]
  /\ \A x \in 1..Len(objs) :
       (/\ objs[x].how = "scale"
        /\ BuiltWith(objs[x].src, "CLarray")
        /\ ValidCoord(Given(objs[x].src), <<objs[x].given_scale>>))
       => LET t == objs[objs[x].src]
              ind == index(Given(objs[x].src), <<objs[x].given_scale>>) IN
          /\ objs[x].len = ind[2] - ind[1]
          /\ \A k \in 0..(objs[x].len - 1) :
               Elem(objs[x], k) = Elem(t, ind[1] + k)

(***************************************************************************)
(* C6  Indexing any view with no components returns the view itself.       *)
(***************************************************************************)
C6_ZeroArgs ==
  (last.op \in Calls /\ last.args = <<>>)
  => (ret.kind = "obj" /\ ret.obj = last.obj)

(***************************************************************************)
(* C7  A ScaleView constructed with resolver R and scale index k has       *)
(* fdct_op = R and fdct_scale = k.                                         *)
(***************************************************************************)
C7_ScaleViewBinding ==
  \A i \in 1..Len(objs) :
    (/\ objs[i].cls = "CLsarray"
     /\ objs[i].how \in Constructed
     /\ objs[i].given_op.t = "op")
    => /\ GetAttr(objs[i], "fdct_op") = objs[i].given_op
       /\ GetAttr(objs[i], "fdct_scale") = objs[i].given_scale

(***************************************************************************)
(* C8  No process-wide state.  A TransformView constructed with resolver R *)
(* answers with R, whatever was constructed before it; and the resolver a  *)
(* view answers with is the one it answered with when it was made.         *)
(***************************************************************************)
C8_OwnResolver ==
  /\ \A i \in 1..Len(objs) :
       (/\ objs[i].cls = "CLarray"
        /\ objs[i].how \in Constructed
        /\ objs[i].given_op.t = "op")
       => GetAttr(objs[i], "fdct_op") = objs[i].given_op
  /\ \A i \in 1..Len(objs) :
       GetAttr(objs[i], "fdct_op") = objs[i].bound_op

(***************************************************************************)
(* C9  A call with more components than the class supports (more than 4    *)
(* for CLarray, more than 3 for CLsarray) ends in an error.                *)
(***************************************************************************)
C9_ArityError ==
  /\ (last.op = "CLarray_call" /\ Len(last.args) > 4) => ret.kind = "error"
  /\ (last.op = "CLsarray_call" /\ Len(last.args) > 3) => ret.kind = "error"

(***************************************************************************)
(* C10  A ScaleView derived (v[:], v.copy()) from a ScaleView that has an  *)
(* integer scale index has its parent's resolver and scale index, and      *)
(* answers v(a) as its parent does.                                        *)
(***************************************************************************)
C10_DerivedScaleView ==
  \A i \in 1..Len(objs) :
    (/\ objs[i].cls = "CLsarray"
     /\ objs[i].how \in DeriveModes
     /\ GetAttr(objs[objs[i].src], "fdct_scale").t = "int")
    => LET p == objs[i].src IN
       /\ GetAttr(objs[i], "fdct_op") = GetAttr(objs[p], "fdct_op")
       /\ GetAttr(objs[i], "fdct_scale") = GetAttr(objs[p], "fdct_scale")
       /\ \A a \in Coords :
            Returned(i, CLsarray_call(objs[i], <<a>>))
              = Returned(p, CLsarray_call(objs[p], <<a>>))

====
